---- MODULE Spec2Model ----
(***************************************************************************)
(* Model of extlinks/programs/views.py: ProgramDetailView, the detail page *)
(* of a program.  The page is computed from three read-only aggregate      *)
(* tables, optionally filtered by a date range, and the whole response is  *)
(* cached per URL by cache_page(60 * 60).                                  *)
(*                                                                         *)
(* Values.  Python None and an SQL NULL are the empty tuple; a date is the *)
(* tuple <<year, month, day>> (datetime.date compares lexicographically);  *)
(* the value of an SQL SUM is NULL or the one-element tuple <<n>>; a       *)
(* Python dict is a function whose DOMAIN is its key set, so that the      *)
(* empty dict and None are both falsy.                                     *)
(***************************************************************************)
EXTENDS Integers, Sequences, FiniteSets, TLC

VARIABLES
    organisations,          \* self.object.organisation_set.all()
    LinkAggregate,          \* rows of the LinkAggregate table
    PageProjectAggregate,   \* rows of the PageProjectAggregate table
    UserAggregate,          \* rows of the UserAggregate table
    form_data,              \* form_data of the last get_context_data call
    queryset_filter,        \* the predicate that call resolved
    response,               \* outcome of the last request
    cache,                  \* cache_page's store: URL -> NoneVal or entry
    now,                    \* wall clock, in seconds
    request,                \* the last dispatched request: URL, time, hit or miss
    last_render             \* URL -> NoneVal or the last time the view body ran

vars == <<organisations, LinkAggregate, PageProjectAggregate, UserAggregate,
          form_data, queryset_filter, response, cache, now, request,
          last_render>>

tables == <<LinkAggregate, PageProjectAggregate, UserAggregate>>
cache_vars == <<cache, now, request, last_render>>

(***************************************************************************)
(* Bounds of the model                                                     *)
(***************************************************************************)
NumProgramOrgs == 2     \* organisations 1..NumProgramOrgs belong to the program
MaxRows == 3            \* rows of the table that varies, in Spec
NumGroups == 6          \* group keys (organisations, projects, users) in SpecTop

NoneVal == <<>>
Truthy(v) == v # NoneVal

\* one organisation of another program
OtherOrg == NumProgramOrgs + 1
ProgramOrgs == 1 .. NumProgramOrgs

Dates == {<<2023, 12, 1>>, <<2024, 1, 1>>, <<2024, 1, 2>>}

DateLt(a, b) ==
    \/ a[1] < b[1]
    \/ a[1] = b[1] /\ a[2] < b[2]
    \/ a[1] = b[1] /\ a[2] = b[2] /\ a[3] < b[3]
DateLe(a, b) == a = b \/ DateLt(a, b)
DateGe(a, b) == DateLe(b, a)

(***************************************************************************)
(* Rows.  name is project_name in PageProjectAggregate, username in        *)
(* UserAggregate and unused ("") in LinkAggregate.                         *)
(***************************************************************************)
Row(org, name, d, added, removed) ==
    [organisation |-> org, name |-> name,
     year |-> d[1], month |-> d[2], day |-> d[3], full_date |-> d,
     total_links_added |-> added, total_links_removed |-> removed]

(***************************************************************************)
(* Q objects: a conjunction of organisation__in, full_date__gte and        *)
(* full_date__lte lookups.                                                 *)
(***************************************************************************)
Q_organisation__in(orgs) ==
    [organisation__in |-> {orgs}, full_date__gte |-> {}, full_date__lte |-> {}]
Q_full_date__gte(d) ==
    [organisation__in |-> {}, full_date__gte |-> {d}, full_date__lte |-> {}]
Q_full_date__lte(d) ==
    [organisation__in |-> {}, full_date__gte |-> {}, full_date__lte |-> {d}]
Q_and(p, q) ==
    [organisation__in |-> p.organisation__in \cup q.organisation__in,
     full_date__gte |-> p.full_date__gte \cup q.full_date__gte,
     full_date__lte |-> p.full_date__lte \cup q.full_date__lte]

\* QuerySet.filter(q): the rows of a table that satisfy q
Matches(row, q) ==
    /\ \A orgs \in q.organisation__in : row.organisation \in orgs
    /\ \A d \in q.full_date__gte : DateGe(row.full_date, d)
    /\ \A d \in q.full_date__lte : DateLe(row.full_date, d)
Filter(table, q) == {row \in table : Matches(row, q)}

(***************************************************************************)
(* Outcome of a Python call: a returned value or a raised exception.       *)
(***************************************************************************)
Return(v) == [raised |-> "", value |-> v]
Raise(e) == [raised |-> e, value |-> NoneVal]

(***************************************************************************)
(* ProgramDetailView._build_queryset_filters(form_data, organisations)     *)
(* The locals start_date and end_date are bound only inside the two        *)
(* `in form_data` tests; line 288 reads end_date whenever it is reached.   *)
(***************************************************************************)
\* mutant of StartDateFilter: the lookup of the end date
StartDateFilter_lte(fd) ==
    IF "start_date" \in DOMAIN fd /\ Truthy(fd["start_date"])
    THEN Q_full_date__lte(fd["start_date"]) ELSE NoneVal

\* lines 268-271: Q(full_date__gte=start_date), or None
StartDateFilter(fd) ==
    IF "start_date" \in DOMAIN fd /\ Truthy(fd["start_date"])
    THEN Q_full_date__gte(fd["start_date"]) ELSE NoneVal

\* lines 272-276: Q(full_date__lte=end_date), or None
EndDateFilter(fd) ==
    IF "end_date" \in DOMAIN fd /\ Truthy(fd["end_date"])
    THEN Q_full_date__lte(fd["end_date"]) ELSE NoneVal

\* mutant of RangeIgnored: `>` for `>=`
RangeIgnored_strict(start_date, end_date) == DateLt(end_date, start_date)

\* line 281: the range whose bounds are dropped
RangeIgnored(start_date, end_date) == DateGe(start_date, end_date)

build_queryset_filters(fd, orgs) ==
    LET organisation_filter == Q_organisation__in(orgs)
        start_date_filter == StartDateFilter(fd)
        end_date_filter == EndDateFilter(fd)
    IN  IF Truthy(start_date_filter) /\ Truthy(end_date_filter)
        THEN IF RangeIgnored(fd["start_date"], fd["end_date"])
             THEN Return(organisation_filter)
             ELSE Return(Q_and(Q_and(organisation_filter, start_date_filter),
                               end_date_filter))
        ELSE IF Truthy(start_date_filter) /\ end_date_filter = NoneVal
        THEN Return(Q_and(organisation_filter, start_date_filter))
        ELSE IF start_date_filter = NoneVal /\ "end_date" \notin DOMAIN fd
        THEN Raise("UnboundLocalError")      \* line 288 reads the unbound end_date
        ELSE IF start_date_filter = NoneVal /\ Truthy(fd["end_date"])
        THEN Return(Q_and(organisation_filter, end_date_filter))
        ELSE Return(organisation_filter)

(***************************************************************************)
(* SQL aggregates                                                          *)
(***************************************************************************)
RECURSIVE Sum(_, _)
Sum(rows, field) ==
    IF rows = {} THEN NoneVal
    ELSE LET r == CHOOSE x \in rows : TRUE
             rest == Sum(rows \ {r}, field)
         IN  IF rest = NoneVal THEN <<r[field]>> ELSE <<r[field] + rest[1]>>

\* a - b in SQL: NULL when either side is NULL
Minus(a, b) == IF a = NoneVal \/ b = NoneVal THEN NoneVal ELSE <<a[1] - b[1]>>

\* Count(field, distinct=True)
CountDistinct(rows, field) == Cardinality({r[field] : r \in rows})

\* QuerySet.earliest("full_date").full_date of a non-empty row set
Earliest(rows) ==
    CHOOSE d \in {r.full_date : r \in rows} :
        \A r \in rows : DateLe(d, r.full_date)

\* every order in which the database may return the rows of an unordered query
RECURSIVE AnyOrder(_)
AnyOrder(S) ==
    IF S = {} THEN {<<>>}
    ELSE UNION {{<<x>> \o s : s \in AnyOrder(S \ {x})} : x \in S}

\* mutant of SortsBefore: ORDER BY -links_diff alone
SortsBefore_diff_only(a, b) == a.links_diff[1] > b.links_diff[1]

\* ORDER BY -links_diff, -links_added, -links_removed: a sorts strictly before b
SortsBefore(a, b) ==
    \/ a.links_diff[1] > b.links_diff[1]
    \/ /\ a.links_diff[1] = b.links_diff[1]
       /\ a.links_added[1] > b.links_added[1]
    \/ /\ a.links_diff[1] = b.links_diff[1]
       /\ a.links_added[1] = b.links_added[1]
       /\ a.links_removed[1] > b.links_removed[1]

\* .order_by(...)[:n]: every result the database may return; rows that tie on
\* all three keys come in any order
RECURSIVE OrderByLimit(_, _)
OrderByLimit(S, n) ==
    IF S = {} \/ n = 0 THEN {<<>>}
    ELSE UNION {{<<x>> \o s : s \in OrderByLimit(S \ {x}, n - 1)} :
                x \in {y \in S : \A z \in S : ~SortsBefore(z, y)}}

\* .annotate(links_added=Sum(..), links_removed=Sum(..), links_diff=Sum(..) - Sum(..))
Annotation(rows) ==
    [links_added |-> Sum(rows, "total_links_added"),
     links_removed |-> Sum(rows, "total_links_removed"),
     links_diff |-> Minus(Sum(rows, "total_links_added"),
                          Sum(rows, "total_links_removed"))]

(***************************************************************************)
(* ProgramDetailView._fill_chart_context: the set of outcomes the call may *)
(* have (the grouped query is unordered).                                  *)
(***************************************************************************)
DateCombined(link) == ToString(link.year) \o "-" \o ToString(link.month)

\* mutant of LinksAggregatedDate: net_change without the links removed
LinksAggregatedDate_added_only(q) ==
    LET rows == Filter(LinkAggregate, q)
    IN  {[month |-> g[1], year |-> g[2],
          net_change |->
              Sum({r \in rows : r.month = g[1] /\ r.year = g[2]},
                  "total_links_added")] :
         g \in {<<r.month, r.year>> : r \in rows}}

LinksAggregatedDate(q) ==
    LET rows == Filter(LinkAggregate, q)
    IN  {[month |-> g[1], year |-> g[2],
          net_change |->
              LET grp == {r \in rows : r.month = g[1] /\ r.year = g[2]}
              IN  Minus(Sum(grp, "total_links_added"),
                        Sum(grp, "total_links_removed"))] :
         g \in {<<r.month, r.year>> : r \in rows}}

\* mutant of fill_chart_context: after the fallback, the chart query uses the
\* organisation-only predicate too
fill_chart_context_unfiltered_chart(orgs, qf) ==
    LET filtered == Filter(LinkAggregate, qf)
        unfiltered == Filter(LinkAggregate, Q_organisation__in(orgs))
    IN  IF filtered = {} /\ unfiltered = {}
        THEN {Raise("DoesNotExist")}
        ELSE LET earliest_link_date ==
                     IF filtered # {} THEN Earliest(filtered)
                     ELSE Earliest(unfiltered)
                 links_aggregated_date ==
                     LinksAggregatedDate(
                         Q_and(IF filtered # {} THEN qf
                               ELSE Q_organisation__in(orgs),
                               Q_full_date__gte(earliest_link_date)))
             IN  {Return([eventstream_dates |->
                              [i \in 1 .. Len(links) |-> DateCombined(links[i])],
                          eventstream_net_change |->
                              [i \in 1 .. Len(links) |-> links[i].net_change]]) :
                  links \in AnyOrder(links_aggregated_date)}

fill_chart_context(orgs, qf) ==
    LET filtered == Filter(LinkAggregate, qf)
        unfiltered == Filter(LinkAggregate, Q_organisation__in(orgs))
    IN  IF filtered = {} /\ unfiltered = {}
        THEN {Raise("DoesNotExist")}
        ELSE LET earliest_link_date ==
                     IF filtered # {} THEN Earliest(filtered)
                     ELSE Earliest(unfiltered)
                 links_aggregated_date ==
                     LinksAggregatedDate(
                         Q_and(qf, Q_full_date__gte(earliest_link_date)))
             IN  {Return([eventstream_dates |->
                              [i \in 1 .. Len(links) |-> DateCombined(links[i])],
                          eventstream_net_change |->
                              [i \in 1 .. Len(links) |-> links[i].net_change]]) :
                  links \in AnyOrder(links_aggregated_date)}

\* mutant of fill_statistics_table_context: links_diff with its operands swapped
fill_statistics_table_context_swapped(qf) ==
    LET links == Filter(LinkAggregate, qf)
    IN  [total_added |-> Sum(links, "total_links_added"),
         total_removed |-> Sum(links, "total_links_removed"),
         total_diff |-> Minus(Sum(links, "total_links_removed"),
                              Sum(links, "total_links_added")),
         total_editors |-> CountDistinct(Filter(UserAggregate, qf), "name"),
         total_projects |->
             CountDistinct(Filter(PageProjectAggregate, qf), "name")]

(***************************************************************************)
(* ProgramDetailView._fill_statistics_table_context                        *)
(***************************************************************************)
fill_statistics_table_context(qf) ==
    LET links == Filter(LinkAggregate, qf)
    IN  [total_added |-> Sum(links, "total_links_added"),
         total_removed |-> Sum(links, "total_links_removed"),
         total_diff |-> Minus(Sum(links, "total_links_added"),
                              Sum(links, "total_links_removed")),
         total_editors |-> CountDistinct(Filter(UserAggregate, qf), "name"),
         total_projects |->
             CountDistinct(Filter(PageProjectAggregate, qf), "name")]

(***************************************************************************)
(* ProgramDetailView._fill_totals_tables: the three grouped queries, each  *)
(* the set of results the database may return.                             *)
(***************************************************************************)
OrganisationName(pk) == "Organisation " \o ToString(pk)

TopLimit == 5

\* mutant of top_organisations: the query without .filter(queryset_filter)
top_organisations_unfiltered(qf) ==
    LET rows == LinkAggregate
        groups ==
            {[organisation__pk |-> o, organisation__name |-> OrganisationName(o)]
                 @@ Annotation({r \in rows : r.organisation = o}) :
             o \in {r.organisation : r \in rows}}
    IN  OrderByLimit(groups, TopLimit)

top_organisations(qf) ==
    LET rows == Filter(LinkAggregate, qf)
        groups ==
            {[organisation__pk |-> o, organisation__name |-> OrganisationName(o)]
                 @@ Annotation({r \in rows : r.organisation = o}) :
             o \in {r.organisation : r \in rows}}
    IN  OrderByLimit(groups, TopLimit)

top_projects(qf) ==
    LET rows == Filter(PageProjectAggregate, qf)
        groups ==
            {[project_name |-> p] @@ Annotation({r \in rows : r.name = p}) :
             p \in {r.name : r \in rows}}
    IN  OrderByLimit(groups, TopLimit)

top_users(qf) ==
    LET rows == Filter(UserAggregate, qf)
        groups ==
            {[username |-> u] @@ Annotation({r \in rows : r.name = u}) :
             u \in {r.name : r \in rows}}
    IN  OrderByLimit(groups, TopLimit)

fill_totals_tables(qf) ==
    {[top_organisations |-> t[1], top_projects |-> t[2], top_users |-> t[3]] :
     t \in top_organisations(qf) \X top_projects(qf) \X top_users(qf)}

(***************************************************************************)
(* ProgramDetailView._build_context_dictionary(organisations, context,     *)
(* form_data): the set of outcomes, each with the predicate it resolved.   *)
(***************************************************************************)
fill_context(orgs, qf) ==
    LET charts == fill_chart_context(orgs, qf)
    IN  UNION {IF chart.raised # ""
               THEN {[raised |-> chart.raised, value |-> NoneVal,
                      queryset_filter |-> qf]}
               ELSE {[raised |-> "",
                      value |-> chart.value
                                @@ fill_statistics_table_context(qf) @@ totals,
                      queryset_filter |-> qf] :
                     totals \in fill_totals_tables(qf)} :
               chart \in charts}

build_context_dictionary(orgs, fd) ==
    IF Truthy(fd)
    THEN LET built == build_queryset_filters(fd, orgs)
         IN  IF built.raised # ""
             THEN {[raised |-> built.raised, value |-> NoneVal,
                    queryset_filter |-> NoneVal]}
             ELSE fill_context(orgs, built.value)
    ELSE fill_context(orgs, Q_organisation__in(orgs))

(***************************************************************************)
(* Inputs.  form_data is None (the form did not validate) or a dict; a     *)
(* date field of cleaned_data is None or a date.                           *)
(***************************************************************************)
FormDates == {<<2024, 1, 1>>, <<2024, 1, 2>>}
FieldValues == {NoneVal} \cup FormDates

FormDatas ==
    UNION {[K -> FieldValues] : K \in SUBSET {"start_date", "end_date"}}
    \cup {[k \in {"page"} |-> NoneVal]}

\* (total_links_added, total_links_removed) of a row
Cells == {<<2, 0>>, <<1, 2>>}

\* the program's organisations on every date, the other organisation on one
LinkKeys ==
    (ProgramOrgs \X {""} \X Dates) \cup {<<OtherOrg, "", <<2024, 1, 1>>>>}
NamedKeys(names) ==
    {1, OtherOrg} \X names \X {<<2023, 12, 1>>, <<2024, 1, 1>>}

\* the tables of at most MaxRows rows over a set of (organisation, name, date) keys
SmallTables(keys) ==
    UNION {{{Row(k[1], k[2], k[3], v[k][1], v[k][2]) : k \in S} : v \in [S -> Cells]} :
           S \in {T \in SUBSET keys : Cardinality(T) <= MaxRows}}

BaseLinkAggregate ==
    {Row(1, "", <<2023, 12, 1>>, 2, 0), Row(1, "", <<2024, 1, 2>>, 1, 2)}
BasePageProjectAggregate ==
    {Row(1, "en.wikipedia.org", <<2024, 1, 1>>, 2, 0)}
BaseUserAggregate ==
    {Row(1, "Alice", <<2024, 1, 1>>, 2, 0)}

\* the query strings of the requests
QueryStrings == {"", "start_date=2024-01-02", "end_date=2024-01-01"}

InitRequest ==
    /\ form_data = NoneVal
    /\ queryset_filter = NoneVal
    /\ response = NoneVal

InitCache ==
    /\ cache = [key \in QueryStrings |-> NoneVal]
    /\ now = 0
    /\ request = NoneVal
    /\ last_render = [query_string \in QueryStrings |-> NoneVal]

InitTables ==
    \/ /\ LinkAggregate \in SmallTables(LinkKeys)
       /\ PageProjectAggregate = BasePageProjectAggregate
       /\ UserAggregate = BaseUserAggregate
    \/ /\ LinkAggregate = BaseLinkAggregate
       /\ PageProjectAggregate \in
              SmallTables(NamedKeys({"en.wikipedia.org", "de.wikipedia.org"}))
       /\ UserAggregate = BaseUserAggregate
    \/ /\ LinkAggregate = BaseLinkAggregate
       /\ PageProjectAggregate = BasePageProjectAggregate
       /\ UserAggregate \in SmallTables(NamedKeys({"Alice", "Bob"}))

Init ==
    /\ \/ organisations = ProgramOrgs /\ InitTables
       \/ /\ organisations = {}
          /\ LinkAggregate \in SmallTables({OtherOrg} \X {""} \X Dates)
          /\ PageProjectAggregate = BasePageProjectAggregate
          /\ UserAggregate = BaseUserAggregate
    /\ InitRequest
    /\ InitCache

(***************************************************************************)
(* One call of _build_context_dictionary on the program's organisations.   *)
(***************************************************************************)
BuildContextDictionary(fd) ==
    /\ response = NoneVal
    /\ \E out \in build_context_dictionary(organisations, fd) :
           /\ queryset_filter' = out.queryset_filter
           /\ response' = [raised |-> out.raised, context |-> out.value]
    /\ form_data' = fd
    /\ UNCHANGED <<organisations, tables, cache_vars>>

\* The response is sent and the view instance, with its locals, is dropped.
Respond ==
    /\ response # NoneVal
    /\ form_data' = NoneVal
    /\ queryset_filter' = NoneVal
    /\ response' = NoneVal
    /\ UNCHANGED <<organisations, tables, cache_vars>>

Next ==
    \/ \E fd \in FormDatas : BuildContextDictionary(fd)
    \/ Respond

Spec == Init /\ [][Next]_vars

(***************************************************************************)
(* SpecTop: tables with up to NumGroups group keys, for the rankings.      *)
(* Every organisation 1..NumGroups belongs to the program.  Group i has no *)
(* row, one row on the first day, or one row on each of two days; the      *)
(* amounts grow with Weight(i), which two neighbouring groups share, so    *)
(* that groups tie on links_diff alone, on all three sort keys, or not at  *)
(* all.                                                                    *)
(***************************************************************************)
TopDay1 == <<2024, 1, 1>>
TopDay2 == <<2024, 1, 2>>

Weight(i) == (i + 1) \div 2

GroupRows(org, name, kind, w) ==
    CASE kind = "none" -> {}
      [] kind = "one" -> {Row(org, name, TopDay1, w, 0)}
      [] kind = "two" -> {Row(org, name, TopDay1, w, 0), Row(org, name, TopDay2, w, w)}

GroupKinds == [1 .. NumGroups -> {"none", "one", "two"}]

ProjectName(i) == "project" \o ToString(i)
UserName(i) == "user" \o ToString(i)

InitTop ==
    /\ organisations = 1 .. NumGroups
    /\ \E kinds \in GroupKinds :
           \/ /\ LinkAggregate =
                     UNION {GroupRows(i, "", kinds[i], Weight(i)) : i \in 1 .. NumGroups}
              /\ PageProjectAggregate = BasePageProjectAggregate
              /\ UserAggregate = BaseUserAggregate
           \/ /\ LinkAggregate = BaseLinkAggregate
              /\ PageProjectAggregate =
                     UNION {GroupRows(1, ProjectName(i), kinds[i], Weight(i)) : i \in 1 .. NumGroups}
              /\ UserAggregate = BaseUserAggregate
           \/ /\ LinkAggregate = BaseLinkAggregate
              /\ PageProjectAggregate = BasePageProjectAggregate
              /\ UserAggregate =
                     UNION {GroupRows(1, UserName(i), kinds[i], Weight(i)) : i \in 1 .. NumGroups}
    /\ InitRequest
    /\ InitCache

TopFormDatas ==
    {NoneVal,
     [start_date |-> TopDay2, end_date |-> NoneVal],
     [start_date |-> NoneVal, end_date |-> TopDay1]}

NextTop ==
    \/ \E fd \in TopFormDatas : BuildContextDictionary(fd)
    \/ Respond

SpecTop == InitTop /\ [][NextTop]_vars

(***************************************************************************)
(* SpecCache: the view behind cache_page(60 * 60).  A request is a GET of  *)
(* the program's detail URL with a query string; the clock advances in     *)
(* half hours; the ingestion pipeline writes LinkAggregate rows.           *)
(***************************************************************************)
MaxTicks == 3           \* half hours the clock runs for

TickSeconds == 30 * 60

\* FilterForm(request.GET).cleaned_data: both date fields, None when not given
FilterForm_cleaned_data(query_string) ==
    CASE query_string = "" ->
             [start_date |-> NoneVal, end_date |-> NoneVal]
      [] query_string = "start_date=2024-01-02" ->
             [start_date |-> <<2024, 1, 2>>, end_date |-> NoneVal]
      [] query_string = "end_date=2024-01-01" ->
             [start_date |-> NoneVal, end_date |-> <<2024, 1, 1>>]

\* ProgramDetailView.get_context_data: the outcomes, with the form data used
get_context_data(query_string) ==
    LET fd == FilterForm_cleaned_data(query_string)
    IN  {[raised |-> out.raised,
          value |-> IF out.raised = ""
                    THEN out.value @@ [query_string |-> query_string]
                    ELSE NoneVal,
          queryset_filter |-> out.queryset_filter,
          form_data |-> fd] :
         out \in build_context_dictionary(organisations, fd)}

\* cache_page(60 * 60)
CachePageTimeout == 60 * 60

\* mutant of CacheKey: the path alone
CacheKey_path_only(query_string) == ""

\* the cache key of a request: its full URL, query string included
CacheKey(query_string) == query_string

\* the stored response under a key, while it has not expired
CacheGet(key) ==
    IF cache[key] # NoneVal /\ now < cache[key].expires
    THEN cache[key].response ELSE NoneVal

\* ProgramDetailView.dispatch behind the cache
Dispatch(query_string) ==
    LET cached == CacheGet(CacheKey(query_string))
        seq == IF request = NoneVal THEN 0 ELSE 1 - request.seq
    IN  /\ response = NoneVal
        /\ IF cached # NoneVal
           THEN /\ response' = cached
                /\ request' = [query_string |-> query_string, at |-> now,
                               hit |-> TRUE, seq |-> seq]
                /\ UNCHANGED <<form_data, queryset_filter, cache, last_render>>
           ELSE \E out \in get_context_data(query_string) :
                    LET rendered == [raised |-> out.raised, context |-> out.value]
                    IN  /\ response' = rendered
                        /\ form_data' = out.form_data
                        /\ queryset_filter' = out.queryset_filter
                        /\ request' = [query_string |-> query_string, at |-> now,
                                       hit |-> FALSE, seq |-> seq]
                        /\ IF out.raised = ""
                           THEN /\ cache' =
                                       [cache EXCEPT ![CacheKey(query_string)] =
                                            [response |-> rendered,
                                             expires |-> now + CachePageTimeout]]
                                /\ last_render' =
                                       [last_render EXCEPT ![query_string] =
                                            [response |-> rendered, at |-> now]]
                           ELSE UNCHANGED <<cache, last_render>>
        /\ UNCHANGED <<organisations, tables, now>>

Tick ==
    /\ now < MaxTicks * TickSeconds
    /\ now' = now + TickSeconds
    /\ UNCHANGED <<organisations, tables, form_data, queryset_filter, response,
                   cache, request, last_render>>

\* the ingestion pipeline writes the day's row of organisation 1
WriteLinkAggregate(d) ==
    /\ Row(1, "", d, 2, 0) \notin LinkAggregate
    /\ LinkAggregate' = LinkAggregate \cup {Row(1, "", d, 2, 0)}
    /\ UNCHANGED <<organisations, PageProjectAggregate, UserAggregate,
                   form_data, queryset_filter, response, cache_vars>>

InitCached ==
    /\ organisations = {1}
    /\ LinkAggregate = {}
    /\ PageProjectAggregate = BasePageProjectAggregate
    /\ UserAggregate = BaseUserAggregate
    /\ InitRequest
    /\ InitCache

NextCache ==
    \/ \E qs \in QueryStrings : Dispatch(qs)
    \/ Respond
    \/ Tick
    \/ \E d \in FormDates : WriteLinkAggregate(d)

SpecCache == InitCached /\ [][NextCache]_vars

(***************************************************************************)
(* Properties                                                              *)
(***************************************************************************)
Called == response # NoneVal
Built == Called /\ response.raised = ""
Resolved == Called /\ queryset_filter # NoneVal

Supplied(fd, key) == key \in DOMAIN fd /\ fd[key] # NoneVal
BothSupplied(fd) == Supplied(fd, "start_date") /\ Supplied(fd, "end_date")
InvertedRange(fd) == BothSupplied(fd) /\ ~DateLt(fd["start_date"], fd["end_date"])

OrganisationOnly == Q_organisation__in(organisations)
MatchingLinks == Filter(LinkAggregate, queryset_filter)
OrganisationLinks == Filter(LinkAggregate, OrganisationOnly)

\* plain integer sum of a field over a set of rows (0 over no rows)
RECURSIVE Total(_, _)
Total(rows, field) ==
    IF rows = {} THEN 0
    ELSE LET r == CHOOSE x \in rows : TRUE
         IN  r[field] + Total(rows \ {r}, field)

\* plain integer sum of an annotation over the entries of a top table
RECURSIVE EntriesTotal(_, _)
EntriesTotal(entries, field) ==
    IF entries = <<>> THEN 0
    ELSE Head(entries)[field][1] + EntriesTotal(Tail(entries), field)

ProbeRows ==
    {Row(o, "", d, 0, 0) : o \in 1 .. OtherOrg, d \in Dates}
    \cup LinkAggregate \cup PageProjectAggregate \cup UserAggregate

\* C2: when the range is not inverted, the returned predicate selects exactly
\* the rows of the program's organisations whose full_date is within every
\* supplied bound, bounds included; an unsupplied bound does not restrict.
C2_InclusiveBounds ==
    (Resolved /\ ~InvertedRange(form_data)) =>
        \A r \in ProbeRows :
            Matches(r, queryset_filter) <=>
                /\ r.organisation \in organisations
                /\ Supplied(form_data, "start_date") =>
                       ~DateLt(r.full_date, form_data["start_date"])
                /\ Supplied(form_data, "end_date") =>
                       ~DateLt(form_data["end_date"], r.full_date)

\* C2 witness: start_date < end_date, a row on each bound kept and a row
\* before the range dropped.
C2_Witness ==
    /\ Built
    /\ BothSupplied(form_data)
    /\ DateLt(form_data["start_date"], form_data["end_date"])
    /\ \E r \in MatchingLinks : r.full_date = form_data["start_date"]
    /\ \E r \in MatchingLinks : r.full_date = form_data["end_date"]
    /\ \E r \in OrganisationLinks \ MatchingLinks :
           DateLt(r.full_date, form_data["start_date"])

\* C3: _build_queryset_filters raises nothing and returns a predicate for
\* every dict it is called with, whichever of the two keys it holds.
C3_NoExceptionForAnyDict ==
    (Called /\ Truthy(form_data)) =>
        /\ response.raised # "UnboundLocalError"
        /\ queryset_filter # NoneVal

\* C5: total_added and total_removed are the sums over the rows matching the
\* resolved predicate and total_diff is their difference; all three are null
\* when no row matches.
C5_Totals ==
    Built =>
        LET c == response.context
        IN  IF MatchingLinks = {}
            THEN /\ c.total_added = NoneVal
                 /\ c.total_removed = NoneVal
                 /\ c.total_diff = NoneVal
            ELSE /\ c.total_added = <<Total(MatchingLinks, "total_links_added")>>
                 /\ c.total_removed = <<Total(MatchingLinks, "total_links_removed")>>
                 /\ c.total_diff = <<c.total_added[1] - c.total_removed[1]>>

\* C5 witness: one context with two matching rows and negative total_diff,
\* reached from tables where a date bound drops a row.
C5_Witness ==
    /\ Built
    /\ Cardinality(MatchingLinks) = 2
    /\ OrganisationLinks # MatchingLinks
    /\ response.context.total_diff = <<-2>>

\* C5 second case: a context is built although no row matches.
C5_NullWitness ==
    /\ Built
    /\ MatchingLinks = {}
    /\ response.context.total_diff = NoneVal

\* C6: when the program's organisations have no LinkAggregate row, the
\* context is still built: nothing is raised, the totals are null, the top
\* tables and both chart series are empty.
C6_NoRowsStillBuilds ==
    (Resolved /\ OrganisationLinks = {}) =>
        /\ response.raised = ""
        /\ response.context.total_added = NoneVal
        /\ response.context.top_organisations = <<>>
        /\ response.context.eventstream_dates = <<>>
        /\ response.context.eventstream_net_change = <<>>

\* C9: the two chart series have one position per (year, month) of the
\* matching rows, labelled "<year>-<month>" and valued sum(added) -
\* sum(removed) of that pair's matching rows; no matching row is left out.
C9_ChartSeries ==
    Built =>
        LET c == response.context
            pairs == {<<r.year, r.month>> : r \in MatchingLinks}
            Of(p) == {r \in MatchingLinks : r.year = p[1] /\ r.month = p[2]}
        IN  /\ Len(c.eventstream_dates) = Cardinality(pairs)
            /\ Len(c.eventstream_net_change) = Cardinality(pairs)
            /\ \A p \in pairs :
                   \E i \in 1 .. Len(c.eventstream_dates) :
                       /\ c.eventstream_dates[i] =
                              ToString(p[1]) \o "-" \o ToString(p[2])
                       /\ c.eventstream_net_change[i] =
                              <<Total(Of(p), "total_links_added")
                                - Total(Of(p), "total_links_removed")>>

\* C9 witness: two months charted, one of them summing two rows, with a row
\* outside the date range left out.
C9_Witness ==
    /\ Built
    /\ Len(response.context.eventstream_dates) = 2
    /\ \E r1, r2 \in MatchingLinks :
           r1 # r2 /\ r1.year = r2.year /\ r1.month = r2.month

\* C10: when the date-filtered predicate matches no row while the
\* organisations do have rows, the context is built and both chart series
\* are empty.
C10_FallbackChartEmpty ==
    (Resolved /\ MatchingLinks = {} /\ OrganisationLinks # {}) =>
        /\ response.raised = ""
        /\ response.context.eventstream_dates = <<>>
        /\ response.context.eventstream_net_change = <<>>

C10_Witness ==
    /\ Built
    /\ Supplied(form_data, "start_date")
    /\ MatchingLinks = {}
    /\ Cardinality(OrganisationLinks) >= 2
    /\ response.context.eventstream_dates = <<>>

\* The ranking the claims describe, stated on the matching rows of a table:
\* top holds min(5, number of groups) entries, one per group key, each with
\* its group's sums; no later entry and no group left out ranks strictly
\* above an entry, comparing links_diff, then links_added, then links_removed.
RankedTop(top, rows, rowField, entryField) ==
    LET keys == {r[rowField] : r \in rows}
        Added(k) == Total({r \in rows : r[rowField] = k}, "total_links_added")
        Removed(k) == Total({r \in rows : r[rowField] = k}, "total_links_removed")
        Rank(k) == <<Added(k) - Removed(k), Added(k), Removed(k)>>
        Above(x, y) ==
            \/ x[1] > y[1]
            \/ x[1] = y[1] /\ x[2] > y[2]
            \/ x[1] = y[1] /\ x[2] = y[2] /\ x[3] > y[3]
        listed == {top[i][entryField] : i \in 1 .. Len(top)}
    IN  /\ Len(top) <= 5
        /\ Len(top) = IF Cardinality(keys) < 5 THEN Cardinality(keys) ELSE 5
        /\ Cardinality(listed) = Len(top)
        /\ listed \subseteq keys
        /\ \A i \in 1 .. Len(top) :
               /\ top[i].links_added = <<Added(top[i][entryField])>>
               /\ top[i].links_removed = <<Removed(top[i][entryField])>>
               /\ top[i].links_diff =
                      <<Added(top[i][entryField]) - Removed(top[i][entryField])>>
        /\ \A i, j \in 1 .. Len(top) :
               i < j => ~Above(Rank(top[j][entryField]), Rank(top[i][entryField]))
        /\ \A k \in keys \ listed : \A i \in 1 .. Len(top) :
               ~Above(Rank(k), Rank(top[i][entryField]))

\* C4: each of top_organisations, top_projects and top_users is the first 5
\* groups of its table's matching rows, ordered by links_diff, links_added,
\* links_removed, all descending.
C4_TopTables ==
    Built =>
        /\ RankedTop(response.context.top_organisations,
                     Filter(LinkAggregate, queryset_filter),
                     "organisation", "organisation__pk")
        /\ RankedTop(response.context.top_projects,
                     Filter(PageProjectAggregate, queryset_filter),
                     "name", "project_name")
        /\ RankedTop(response.context.top_users,
                     Filter(UserAggregate, queryset_filter),
                     "name", "username")

\* C4 witness: more than 5 organisations match, the table is cut to 5, two
\* neighbouring entries tie on links_diff and are ordered by links_added.
C4_Witness ==
    /\ Built
    /\ Cardinality({r.organisation : r \in MatchingLinks}) > 5
    /\ Len(response.context.top_organisations) = 5
    /\ \E i \in 1 .. 4 :
           LET t == response.context.top_organisations
           IN  /\ t[i].links_diff = t[i + 1].links_diff
               /\ t[i].links_added[1] > t[i + 1].links_added[1]

MatchingOrganisations == {r.organisation : r \in MatchingLinks}

TotalsEqualTopSums ==
    LET c == response.context
    IN  /\ c.total_diff = <<EntriesTotal(c.top_organisations, "links_diff")>>
        /\ c.total_added = <<EntriesTotal(c.top_organisations, "links_added")>>
        /\ c.total_removed = <<EntriesTotal(c.top_organisations, "links_removed")>>

\* C7 as claimed: whenever at most 5 organisations have matching rows, the
\* three totals equal the sums of the annotations over top_organisations.
C7_TotalsEqualTopSums_AtMost5 ==
    (Built /\ Cardinality(MatchingOrganisations) <= 5) => TotalsEqualTopSums

\* C7 amended: whenever at least one and at most 5 organisations have
\* matching rows, the three totals equal the sums over top_organisations.
C7_TotalsEqualTopSums_1To5 ==
    (Built /\ Cardinality(MatchingOrganisations) \in 1 .. 5) => TotalsEqualTopSums

\* C7 witness: exactly 5 organisations match, under a date bound that drops
\* rows of the program.
C7_Witness ==
    /\ Built
    /\ Cardinality(MatchingOrganisations) = 5
    /\ MatchingLinks # OrganisationLinks
    /\ TotalsEqualTopSums

\* C7, truncation: with 6 organisations matching, the totals differ from the
\* sums over the 5 entries.
C7_TruncatedWitness ==
    /\ Built
    /\ Cardinality(MatchingOrganisations) > 5
    /\ ~TotalsEqualTopSums

C8_ExpiredWitness ==
    /\ request # NoneVal
    /\ ~request.hit
    /\ response # NoneVal
    /\ response.raised = ""
    /\ request.at = now
    /\ cache[request.query_string].expires = now + 3600
    /\ now >= 3600

====
